---- MODULE Spec2Model ----
(***************************************************************************)
(* Model of the VendorX procurement engine: the vendor table loader, the   *)
(* retrying caller, the concurrent acquisition orchestrator (vendors.py),  *)
(* the decision function (analyzer.py), the order executor (executor.py),  *)
(* the constraint store (db.py) and the entry point of a run (main.py).    *)
(*                                                                         *)
(* Conventions.  Python's None and "optional" values are sequences of      *)
(* length 0 or 1 (<<>> is None).  Money is whole rupees, reliability is a  *)
(* whole percentage (95 stands for 0.95), a score is in hundredths of a    *)
(* point (8655 stands for 86.55), durations of waits are milliseconds and  *)
(* call latencies are seconds.                                             *)
(***************************************************************************)
EXTENDS Integers, Sequences, FiniteSets, TLC

\* ------------------------------------------------------------------ bounds
MaxVendors == 2
MaxQuotes == 3
MaxStoreOps == 3

\* --------------------------------------------------------------- config.py
MAX_PRICE == 830000
MAX_DELIVERY == 14
W_PRICE == 50
W_DELIVERY == 30
W_RELIABILITY == 20
max_attempts == 3
base_delay == 500
max_delay == 5000
exponential_base == 2
VENDOR_TIMEOUT == 10
DEFAULT_BUDGET == 500000
DEFAULT_DEADLINE == 6

\* ------------------------------------------------------------ input domains
\* Rows of vendors.csv, in file order.  A row whose numeric fields do not
\* parse is marked malformed.
VendorTable ==
  << [name |-> "C", base_price |-> 100000, price_per_unit |-> 500, delivery |-> 2,
      reliability |-> 99, penalty_rate |-> 0],
     [name |-> "A", base_price |-> 50000, price_per_unit |-> 500, delivery |-> 3,
      reliability |-> 95, penalty_rate |-> 0],
     [name |-> "B", base_price |-> 40000, price_per_unit |-> 500, delivery |-> 7,
      reliability |-> 80, penalty_rate |-> 2],
     [name |-> "D", base_price |-> 80000, price_per_unit |-> 500, delivery |-> 1,
      reliability |-> 99, penalty_rate |-> 0],
     [name |-> "E", base_price |-> 50000, price_per_unit |-> 500, delivery |-> 3,
      reliability |-> 95, penalty_rate |-> 0] >>

Quantities == {50, 100}

\* Seconds from the invocation of a call to its completion, within and beyond
\* VENDOR_TIMEOUT: asyncio.sleep(latency) resumes no earlier than the latency
\* drawn and nothing in the call bounds the time from above.
Latencies == {1, 11}

\* random.uniform(0, delay * 0.1), as a percentage of delay.
JitterPercents == {0, 10}

Min(a, b) == IF a < b THEN a ELSE b
Max(a, b) == IF a > b THEN a ELSE b

RECURSIVE Pow(_, _)
Pow(b, e) == IF e = 0 THEN 1 ELSE b * Pow(b, e - 1)

\* round(x) of Python for the non-negative rational num/den: half to even.
RoundHalfEven(num, den) ==
  LET q == num \div den
      r == num % den
  IN  IF 2 * r < den THEN q
      ELSE IF 2 * r > den THEN q + 1
      ELSE IF q % 2 = 0 THEN q ELSE q + 1

\* A score without the max(0, ...) clamps of the two normalisations.
compute_score_unclamped(price, delivery, reliability) ==
  LET pd == MAX_PRICE \div (W_PRICE * 100)
      dd == MAX_DELIVERY \div 2
      num == (MAX_PRICE - price) * dd
             + ((W_DELIVERY * 100) \div 2) * (MAX_DELIVERY - delivery) * pd
             + W_RELIABILITY * reliability * pd * dd
  IN  IF num >= 0 THEN RoundHalfEven(num, pd * dd) ELSE 0 - RoundHalfEven(0 - num, pd * dd)

\* A score that leaves the price out.
compute_score_no_price(price, delivery, reliability) ==
  LET dd == MAX_DELIVERY \div 2
      num == ((W_DELIVERY * 100) \div 2) * Max(0, MAX_DELIVERY - delivery)
             + W_RELIABILITY * reliability * dd
  IN  RoundHalfEven(num, dd)

\* vendors.py compute_score, in hundredths of a point.  With the weights in
\* percent, score*100 = W_PRICE*100*price_norm + W_DELIVERY*100*delivery_norm
\* + W_RELIABILITY*reliability; the three terms are put over the common
\* denominator (MAX_PRICE \div 5000) * (MAX_DELIVERY \div 2) to stay in range.
compute_score(price, delivery, reliability) ==
  LET pd == MAX_PRICE \div (W_PRICE * 100)
      dd == MAX_DELIVERY \div 2
      price_num == Max(0, MAX_PRICE - price)
      delivery_num == Max(0, MAX_DELIVERY - delivery)
      num == price_num * dd
             + ((W_DELIVERY * 100) \div 2) * delivery_num * pd
             + W_RELIABILITY * reliability * pd * dd
  IN  RoundHalfEven(num, pd * dd)

\* vendors.py simulate_vendor_api: the dict a call returns when it does not
\* raise.  The table holds whole rupees, so round(price, 2) leaves price as is.
simulate_vendor_api(vendor_data, q) ==
  LET price == vendor_data.base_price + q * vendor_data.price_per_unit
  IN  [name |-> vendor_data.name,
       price |-> price,
       delivery |-> vendor_data.delivery,
       reliability |-> vendor_data.reliability,
       penalty_rate |-> vendor_data.penalty_rate,
       score |-> compute_score(price, vendor_data.delivery, vendor_data.reliability)]

\* simulate_vendor_api line 99: the ConnectionError raised by the call of one
\* attempt.  raisedAt tells the exception objects of different attempts apart.
ConnectionError(vendor_data, att) ==
  [vendor |-> vendor_data.name, msg |-> "API timeout", raisedAt |-> att]

\* str(e): the message of an exception, without the identity of the object.
str(e) == << e.vendor, e.msg >>

\* ---------------------------------------------------------------- the state
VARIABLES
  csv,             \* vendors.csv: [exists, rows], each row [data, malformed]
  qty,             \* the order quantity of the run
  orch,            \* get_vendors: "idle", "gather", "returned" or "raised"
  csv_vendors,     \* the registry get_vendors loaded
  pc,              \* per task: "new", "in_call", "backoff", "done"
  attempt,         \* per task: the loop variable of retry_with_backoff
  last_exception,  \* per task: optional error
  latency,         \* per task: latency of the call in flight
  results,         \* per task: [supplier_data, meta, caught, raised], once done
  suppliers,       \* first component returned by get_vendors
  metadata,        \* second component returned by get_vendors
  calls,           \* history, per task: number of invocations of the call
  failed,          \* history, per task: number of invocations that raised
  allSlow,         \* history, per task: every invocation exceeded VENDOR_TIMEOUT
  waits,           \* history, per task: the delays slept between attempts
  completed        \* history: task indices in the order the tasks finished

acqVars == << csv, qty, orch, csv_vendors, pc, attempt, last_exception, latency,
              results, suppliers, metadata, calls, failed, allSlow, waits,
              completed >>

\* The decision function is applied to inputs of its own.
VARIABLES
  d_suppliers,     \* choose_best_supplier: the list of supplier dicts
  d_cheapest,      \* optional cheapest_supplier argument
  d_budget,        \* optional budget argument
  d_deadline,      \* optional deadline argument
  d_result         \* optional outcome of the call

decVars == << d_suppliers, d_cheapest, d_budget, d_deadline, d_result >>

\* The rest of a run, and the functions exercised on inputs of their own.
VARIABLES
  run_result,      \* optional result of the run that follows get_vendors
  a_result,        \* optional result of the analysis of d_suppliers
  sc_in,           \* compute_score: [price, delivery, reliability]
  sc_out,          \* optional score returned
  o_supplier,      \* place_order: the supplier dict
  o_pc,            \* place_order: "idle", "sleeping" or "done"
  o_attempts,      \* place_order: confirmation attempts made
  o_draws,         \* history: the values random.random() returned
  o_result,        \* optional value returned by place_order
  db,              \* database.db: [created, rows]
  k_ops,           \* history: number of constraint store operations
  k_last,          \* optional outcome of the last constraint store operation
  k_written        \* history: optional (budget, deadline) of the last update
                   \* that returned True

\* The entry point of a run.
VARIABLES
  m_pc,            \* run_procurement_async: "idle", "called", "fetching", "returned"
  m_arg_budget,    \* history: the optional budget the caller passed
  m_arg_deadline,  \* history: the optional deadline the caller passed
  m_budget,        \* the local budget (optional)
  m_deadline,      \* the local deadline (optional)
  m_stored         \* history: optional pair get_constraints returned to the run

scoreVars == << sc_in, sc_out >>
orderVars == << o_supplier, o_pc, o_attempts, o_draws, o_result >>
storeVars == << db, k_ops, k_last, k_written >>
entryVars == << m_pc, m_arg_budget, m_arg_deadline, m_budget, m_deadline, m_stored >>
extVars == << a_result, scoreVars, orderVars, storeVars, entryVars >>

vars == << acqVars, decVars, run_result, extVars >>

Tasks == 1 .. Len(csv_vendors)

\* Files vendors.csv may be: absent, or up to MaxVendors rows of the table in
\* file order, any of them malformed.
CsvFiles ==
  { [exists |-> FALSE, rows |-> << >>] } \cup
  { [exists |-> TRUE,
     rows |-> [i \in 1 .. n |-> [data |-> VendorTable[i], malformed |-> i \in bad]]] :
       n \in 0 .. MaxVendors, bad \in SUBSET (1 .. MaxVendors) }

\* vendors.py load_vendors_from_csv.  The try block encloses the whole loop:
\* the first row that fails to convert ends the loop and the rows appended
\* before it are returned.
RECURSIVE load_rows(_, _)
load_rows(rows, vendors) ==
  IF rows = << >> THEN vendors
  ELSE IF Head(rows).malformed THEN vendors
  ELSE load_rows(Tail(rows), Append(vendors, Head(rows).data))

load_vendors_from_csv(file) ==
  IF ~file.exists THEN << >> ELSE load_rows(file.rows, << >>)

\* A delay that does not grow with the attempt.
backoff_base_flat(att) == Min(base_delay, max_delay)

\* vendors.py retry_with_backoff, line 50: the delay after failed attempt att.
backoff_base(att) == Min(base_delay * Pow(exponential_base, att), max_delay)

\* A jitter of up to the whole delay instead of a tenth of it.
backoff_delay_wide(att, jitter) ==
  backoff_base(att) + (backoff_base(att) * jitter) \div 10

\* line 51: delay += random.uniform(0, delay * 0.1), jitter as a percentage.
backoff_delay(att, jitter) ==
  backoff_base(att) + (backoff_base(att) * jitter) \div 100

\* A retrying caller that reports the loop index instead of the attempt count.
retry_success_index(result, att) == << result, att >>

\* line 46: return result, attempt + 1
retry_success(result, att) == << result, att + 1 >>

\* A retrying caller whose loop never runs out of attempts.
attempts_remain_always(att) == TRUE

\* lines 43 and 49: range(max_attempts) has a further index after attempt,
\* which is when the backoff sleep is taken.
attempts_remain(att) == att < max_attempts - 1

\* A retrying caller that keeps the first error it saw.
record_first_exception(prev, e) == IF prev = << >> THEN << e >> ELSE prev

\* line 48: last_exception = e
record_exception(prev, e) == << e >>

\* vendors.py fetch_vendor_with_retry, lines 123-128: the retrying caller
\* returned (result, attempts).
fetch_success(vendor_data, ret) ==
  [supplier_data |-> << ret[1] >>,
   meta |-> [vendor |-> vendor_data.name, success |-> TRUE,
             attempts |-> ret[2], error |-> << >>],
   caught |-> << >>,
   raised |-> FALSE]

\* A task without the except clause: the error leaves the task.
fetch_failure_uncaught(vendor_data, e) ==
  [supplier_data |-> << >>,
   meta |-> [vendor |-> vendor_data.name, success |-> FALSE,
             attempts |-> max_attempts, error |-> << str(e) >>],
   caught |-> << >>,
   raised |-> TRUE]

\* lines 129-135: the retrying caller raised e, which the except clause
\* catches and reports as data.
fetch_failure(vendor_data, e) ==
  [supplier_data |-> << >>,
   meta |-> [vendor |-> vendor_data.name, success |-> FALSE,
             attempts |-> max_attempts, error |-> << str(e) >>],
   caught |-> << e >>,
   raised |-> FALSE]

\* The result slot of a task that is not done holds nothing to read.
NoResult ==
  [supplier_data |-> << >>,
   meta |-> [vendor |-> "", success |-> FALSE, attempts |-> 0, error |-> << >>],
   caught |-> << >>,
   raised |-> FALSE]

\* A join that resumes as soon as one task is done.
GatherReadyFirst == \E i \in Tasks : pc[i] = "done"

\* asyncio.gather(*tasks), line 150: resumes get_vendors when every task is
\* done, or at once when a task raised.
GatherReady ==
  \/ \A i \in Tasks : pc[i] = "done"
  \/ \E i \in Tasks : pc[i] = "done" /\ results[i].raised

\* A join that lists the results in the order the tasks finished.
GatherResultsByCompletion ==
  [i \in Tasks |-> IF i <= Len(completed) THEN results[completed[i]] ELSE results[i]]

\* The list gather returns: the tasks' results in the order of the tasks.
GatherResults == [i \in Tasks |-> results[i]]

\* A split that stops collecting quotes at the first result without one.
RECURSIVE collect_suppliers_until_none(_)
collect_suppliers_until_none(res) ==
  IF res = << >> \/ Head(res).supplier_data = << >> THEN << >>
  ELSE Head(res).supplier_data \o collect_suppliers_until_none(Tail(res))

\* lines 152-158: the loop that splits results into suppliers and metadata.
RECURSIVE collect_suppliers(_)
collect_suppliers(res) ==
  IF res = << >> THEN << >>
  ELSE Head(res).supplier_data \o collect_suppliers(Tail(res))

collect_metadata(res) == [i \in 1 .. Len(res) |-> res[i].meta]

NoVendorsMeta ==
  [vendor |-> "CSV_LOADER", success |-> FALSE, attempts |-> 1,
   error |-> << << "CSV_LOADER", "No vendors found in vendors.csv" >> >>]

InitAcq ==
  /\ csv \in CsvFiles
  /\ qty \in Quantities
  /\ orch = "idle"
  /\ csv_vendors = << >>
  /\ pc = << >>
  /\ attempt = << >>
  /\ last_exception = << >>
  /\ latency = << >>
  /\ results = << >>
  /\ suppliers = << >>
  /\ metadata = << >>
  /\ calls = << >>
  /\ failed = << >>
  /\ allSlow = << >>
  /\ waits = << >>
  /\ completed = << >>

\* A get_vendors without the check for an empty registry (lines 145-146): it
\* goes on to gather over no task.
get_vendors_start_unchecked ==
  /\ orch = "idle"
  /\ LET loaded == load_vendors_from_csv(csv)
         n == Len(loaded)
     IN  /\ csv_vendors' = loaded
         /\ orch' = "gather"
         /\ pc' = [i \in 1 .. n |-> "new"]
         /\ attempt' = [i \in 1 .. n |-> 0]
         /\ last_exception' = [i \in 1 .. n |-> << >>]
         /\ latency' = [i \in 1 .. n |-> 0]
         /\ results' = [i \in 1 .. n |-> NoResult]
         /\ calls' = [i \in 1 .. n |-> 0]
         /\ failed' = [i \in 1 .. n |-> 0]
         /\ allSlow' = [i \in 1 .. n |-> TRUE]
         /\ waits' = [i \in 1 .. n |-> << >>]
  /\ UNCHANGED << csv, qty, suppliers, metadata, completed, decVars, run_result,
                  extVars >>

\* get_vendors, lines 143-150: load the table; return at once when it is
\* empty, else create one task per vendor and await gather.
get_vendors_start ==
  /\ orch = "idle"
  /\ LET loaded == load_vendors_from_csv(csv)
         n == Len(loaded)
     IN  /\ csv_vendors' = loaded
         /\ IF loaded = << >>
            THEN /\ orch' = "returned"
                 /\ suppliers' = << >>
                 /\ metadata' = << NoVendorsMeta >>
            ELSE /\ orch' = "gather"
                 /\ UNCHANGED << suppliers, metadata >>
         /\ pc' = [i \in 1 .. n |-> "new"]
         /\ attempt' = [i \in 1 .. n |-> 0]
         /\ last_exception' = [i \in 1 .. n |-> << >>]
         /\ latency' = [i \in 1 .. n |-> 0]
         /\ results' = [i \in 1 .. n |-> NoResult]
         /\ calls' = [i \in 1 .. n |-> 0]
         /\ failed' = [i \in 1 .. n |-> 0]
         /\ allSlow' = [i \in 1 .. n |-> TRUE]
         /\ waits' = [i \in 1 .. n |-> << >>]
  /\ UNCHANGED << csv, qty, completed, decVars, run_result, extVars >>

\* retry_with_backoff line 45 up to the sleep of simulate_vendor_api (line
\* 94): a task that was just created, or whose backoff sleep ended, invokes
\* the call; the call draws its latency and suspends.
StartAttempt(i) ==
  /\ orch = "gather"
  /\ pc[i] \in {"new", "backoff"}
  /\ \E lat \in Latencies :
       /\ latency' = [latency EXCEPT ![i] = lat]
       /\ allSlow' = [allSlow EXCEPT ![i] = @ /\ lat > VENDOR_TIMEOUT]
  /\ attempt' = [attempt EXCEPT ![i] = IF pc[i] = "new" THEN 0 ELSE @ + 1]
  /\ calls' = [calls EXCEPT ![i] = @ + 1]
  /\ pc' = [pc EXCEPT ![i] = "in_call"]
  /\ UNCHANGED << csv, qty, orch, csv_vendors, last_exception, results,
                  suppliers, metadata, failed, waits, completed, decVars, run_result, extVars >>

\* simulate_vendor_api lines 101-111 returns; retry_with_backoff line 46
\* returns; fetch_vendor_with_retry lines 123-128 returns: the task is done.
CallReturns(i) ==
  /\ orch = "gather"
  /\ pc[i] = "in_call"
  /\ LET result == simulate_vendor_api(csv_vendors[i], qty)
         ret == retry_success(result, attempt[i])
     IN  results' = [results EXCEPT ![i] = fetch_success(csv_vendors[i], ret)]
  /\ pc' = [pc EXCEPT ![i] = "done"]
  /\ completed' = Append(completed, i)
  /\ UNCHANGED << csv, qty, orch, csv_vendors, attempt, last_exception, latency,
                  suppliers, metadata, calls, failed, allSlow, waits, decVars, run_result, extVars >>

\* simulate_vendor_api line 99 raises; retry_with_backoff lines 47-52 record
\* the error and, unless this was the last attempt, sleep the backoff delay;
\* after the last attempt line 54 raises and fetch_vendor_with_retry lines
\* 129-135 turn the error into the task's result.
CallRaises(i) ==
  /\ orch = "gather"
  /\ pc[i] = "in_call"
  /\ LET e == ConnectionError(csv_vendors[i], attempt[i])
         last == record_exception(last_exception[i], e)
     IN  /\ last_exception' = [last_exception EXCEPT ![i] = last]
         /\ failed' = [failed EXCEPT ![i] = @ + 1]
         /\ IF attempts_remain(attempt[i])
            THEN /\ \E j \in JitterPercents :
                      waits' = [waits EXCEPT ![i] = Append(@, backoff_delay(attempt[i], j))]
                 /\ pc' = [pc EXCEPT ![i] = "backoff"]
                 /\ UNCHANGED << results, completed >>
            ELSE /\ results' = [results EXCEPT ![i] =
                                  fetch_failure(csv_vendors[i], last[1])]
                 /\ pc' = [pc EXCEPT ![i] = "done"]
                 /\ completed' = Append(completed, i)
                 /\ UNCHANGED waits
  /\ UNCHANGED << csv, qty, orch, csv_vendors, attempt, latency,
                  suppliers, metadata, calls, allSlow, decVars, run_result, extVars >>

\* get_vendors lines 150-160: gather resumes the orchestrator, which splits
\* the results and returns; an exception of a task would leave get_vendors.
get_vendors_return ==
  /\ orch = "gather"
  /\ GatherReady
  /\ IF \E i \in Tasks : pc[i] = "done" /\ results[i].raised
     THEN /\ orch' = "raised"
          /\ UNCHANGED << suppliers, metadata >>
     ELSE /\ orch' = "returned"
          /\ suppliers' = collect_suppliers(GatherResults)
          /\ metadata' = collect_metadata(GatherResults)
  /\ UNCHANGED << csv, qty, csv_vendors, pc, attempt, last_exception, latency,
                  results, calls, failed, allSlow, waits, completed, decVars, run_result, extVars >>

\* The decision function is not called in an acquisition run of the model.
DecIdle ==
  /\ d_suppliers = << >>
  /\ d_cheapest = << >>
  /\ d_budget = << >>
  /\ d_deadline = << >>
  /\ d_result = << >>

\* Nothing else runs: the variables of the other functions keep fixed values.
ScoreIdle == sc_in = [price |-> 0, delivery |-> 0, reliability |-> 0] /\ sc_out = << >>

OrderIdle ==
  /\ o_supplier = [name |-> "", reliability |-> 0]
  /\ o_pc = "idle"
  /\ o_attempts = 0
  /\ o_draws = << >>
  /\ o_result = << >>

StoreIdle == db = [created |-> FALSE, rows |-> << >>] /\ k_ops = 0 /\ k_last = << >>
  /\ k_written = << >>

\* run_procurement_async is not called.
EntryIdle ==
  /\ m_pc = "idle"
  /\ m_arg_budget = << >>
  /\ m_arg_deadline = << >>
  /\ m_budget = << >>
  /\ m_deadline = << >>
  /\ m_stored = << >>

ExtIdle == a_result = << >> /\ ScoreIdle /\ OrderIdle /\ StoreIdle /\ EntryIdle

Init == InitAcq /\ DecIdle /\ run_result = << >> /\ ExtIdle

Next ==
  \/ get_vendors_start
  \/ \E i \in Tasks : StartAttempt(i)
  \/ \E i \in Tasks : CallReturns(i)
  \/ \E i \in Tasks : CallRaises(i)
  \/ get_vendors_return

Spec == Init /\ [][Next]_vars

\* ----------------------------------------------------- acquisition: claims
Done(i) == pc[i] = "done"
Succeeded(i) == Done(i) /\ results[i].meta.success
Exhausted(i) == Done(i) /\ ~results[i].meta.success

\* C1: a call that fails on its first k < max_attempts invocations and
\* succeeds on invocation k+1 makes the retrying caller return that call's
\* result with attempts_used = k+1, and the call is not invoked again once
\* the task is done.
C1_FirstSuccessReturns ==
  /\ [](\A i \in Tasks :
          (Done(i) /\ calls[i] = failed[i] + 1) =>
            /\ failed[i] < max_attempts
            /\ results[i].meta.success
            /\ results[i].meta.attempts = failed[i] + 1
            /\ results[i].supplier_data = << simulate_vendor_api(csv_vendors[i], qty) >>)
  /\ [][\A i \in Tasks : Done(i) => (calls'[i] = calls[i] /\ Done(i)')]_vars

\* C1 witness: a task succeeded on its last permitted attempt (k = 2).
C1_Witness ==
  \E i \in Tasks :
    /\ Succeeded(i)
    /\ failed[i] = max_attempts - 1
    /\ results[i].meta.attempts = max_attempts

\* C2: a call that fails on every invocation is invoked exactly max_attempts
\* times; the caller then raises the error of the last attempt, and the
\* FetchOutcome has success = false and attempts = max_attempts.
C2_ExhaustionReportsLastError ==
  \A i \in Tasks :
    /\ (calls[i] = failed[i] /\ calls[i] >= max_attempts) =>
         /\ calls[i] = max_attempts
         /\ Done(i)
         /\ ~results[i].meta.success
         /\ results[i].meta.attempts = max_attempts
         /\ results[i].caught = << ConnectionError(csv_vendors[i], max_attempts - 1) >>
         /\ results[i].meta.error = << str(ConnectionError(csv_vendors[i], max_attempts - 1)) >>
         /\ results[i].supplier_data = << >>
    /\ Exhausted(i) => (calls[i] = max_attempts /\ failed[i] = max_attempts)

\* C2 witness: a task exhausted its attempts.
C2_Witness ==
  \E i \in Tasks : Exhausted(i) /\ failed[i] = max_attempts

\* C3: a call that does not complete within VENDOR_TIMEOUT counts as a failed
\* attempt, so a vendor all of whose calls exceed the timeout ends with
\* success = false, attempts = max_attempts and no quote.
C3_SlowCallsFail ==
  \A i \in Tasks :
    (Done(i) /\ allSlow[i]) =>
      /\ ~results[i].meta.success
      /\ results[i].meta.attempts = max_attempts
      /\ results[i].supplier_data = << >>

\* The position of a vendor name in the registry (names are distinct).
RegistryIndex(name) == CHOOSE i \in Tasks : csv_vendors[i].name = name

\* C4: for a non-empty registry and any completion order, get_vendors returns
\* one FetchOutcome per registered vendor in registration order and one Quote
\* per vendor that succeeded, also in registration order; a vendor that never
\* succeeded contributes a FetchOutcome with success = false and no Quote.
C4_OutcomesInRegistrationOrder ==
  (orch = "returned" /\ csv_vendors # << >>) =>
    /\ Len(metadata) = Len(csv_vendors)
    /\ \A i \in Tasks :
         /\ metadata[i].vendor = csv_vendors[i].name
         /\ metadata[i].success = (calls[i] = failed[i] + 1)
         /\ metadata[i].attempts = calls[i]
    /\ Len(suppliers) = Cardinality({i \in Tasks : calls[i] = failed[i] + 1})
    /\ \A i \in Tasks :
         (calls[i] = failed[i] + 1) <=>
           (\E j \in 1 .. Len(suppliers) :
              suppliers[j] = simulate_vendor_api(csv_vendors[i], qty))
    /\ \A j, k \in 1 .. Len(suppliers) :
         j < k => RegistryIndex(suppliers[j].name) < RegistryIndex(suppliers[k].name)

\* C4 witness: get_vendors returned after the tasks finished in the reverse
\* of the registration order, the first vendor exhausted and the second
\* succeeded after a retry.
C4_Witness ==
  /\ orch = "returned"
  /\ Len(csv_vendors) = 2
  /\ completed = << 2, 1 >>
  /\ metadata[1].success = FALSE
  /\ metadata[2].success = TRUE
  /\ metadata[2].attempts = 2
  /\ Len(suppliers) = 1

\* C5: get_vendors does not return, and collects no quote or outcome, before
\* every task has produced a quote or exhausted its retries.
C5_FanInBarrier ==
  /\ (orch \in {"idle", "gather"}) => (suppliers = << >> /\ metadata = << >>)
  /\ (orch = "returned") =>
       \A i \in Tasks :
         /\ Done(i)
         /\ calls[i] = failed[i] + 1 \/ failed[i] = max_attempts

\* C5 witness: one task is done while another is still retrying and
\* get_vendors is still suspended.
C5_Witness ==
  /\ orch = "gather"
  /\ \E i, j \in Tasks : Done(i) /\ pc[j] = "backoff"

\* What one task owns.
TaskState(i) ==
  << pc[i], attempt[i], last_exception[i], latency[i], results[i], calls[i],
     failed[i], waits[i] >>

\* C6: the failure of a vendor's call is captured in that vendor's
\* FetchOutcome and never leaves get_vendors, and a step of one task leaves
\* the quote, the attempt count and the outcome of every other task as they were.
C6_FailureIsolation ==
  /\ [](orch # "raised" /\ \A i \in Tasks : ~results[i].raised)
  /\ [](\A i \in Tasks :
          (Done(i) /\ failed[i] = max_attempts) =>
            /\ results[i].meta = [vendor |-> csv_vendors[i].name, success |-> FALSE,
                                  attempts |-> max_attempts,
                                  error |-> << str(ConnectionError(csv_vendors[i], max_attempts - 1)) >>]
            /\ (orch = "returned" => metadata[i] = results[i].meta))
  /\ [][\A i \in Tasks :
          (failed'[i] # failed[i]) =>
            \A j \in Tasks \ {i} : TaskState(j)' = TaskState(j)]_vars

\* C6 witness: get_vendors returned with one vendor exhausted and another
\* one successful at its first attempt.
C6_Witness ==
  /\ orch = "returned"
  /\ \E i, j \in Tasks :
       /\ Exhausted(i)
       /\ Succeeded(j) /\ results[j].meta.attempts = 1
       /\ metadata[i].success = FALSE
       /\ metadata[j].success = TRUE

\* ------------------------------------------------------ the decision function
Range(f) == {f[i] : i \in DOMAIN f}

\* A selection of the supplier of minimal score.
RECURSIVE min_by_score(_, _)
min_by_score(rest, cur) ==
  IF rest = << >> THEN cur
  ELSE IF Head(rest).score < cur.score THEN min_by_score(Tail(rest), Head(rest))
  ELSE min_by_score(Tail(rest), cur)

\* max(suppliers, key=score): the first supplier of maximal score.
RECURSIVE max_by_score(_, _)
max_by_score(rest, cur) ==
  IF rest = << >> THEN cur
  ELSE IF Head(rest).score > cur.score THEN max_by_score(Tail(rest), Head(rest))
  ELSE max_by_score(Tail(rest), cur)

\* min(suppliers, key=price): the first supplier of minimal price.
RECURSIVE min_by_price(_, _)
min_by_price(rest, cur) ==
  IF rest = << >> THEN cur
  ELSE IF Head(rest).price < cur.price THEN min_by_price(Tail(rest), Head(rest))
  ELSE min_by_price(Tail(rest), cur)

\* analyzer.py choose_best_supplier.  max() of an empty list raises
\* ValueError.  The explanation text is kept as its parts: the chosen
\* supplier, the cheapest, the "other suppliers considered" and, when both
\* constraints are given, the "filtered out" list.
choose_best_supplier(sups, cheapest_supplier, budget, deadline) ==
  IF sups = << >>
  THEN [raised |-> TRUE, best |-> << >>, explanation |-> << >>]
  ELSE
    LET best == max_by_score(Tail(sups), Head(sups))
        cheapest == IF cheapest_supplier # << >> THEN cheapest_supplier[1]
                    ELSE min_by_price(Tail(sups), Head(sups))
        IsOther(x) == x # best
        shown == budget # << >> /\ deadline # << >>
        Violates(x) == x.price > budget[1] \/ x.delivery > deadline[1]
    IN  [raised |-> FALSE,
         best |-> << best >>,
         explanation |->
           << [chosen |-> best,
               cheapest |-> cheapest,
               considered |-> SelectSeq(sups, IsOther),
               filter_shown |-> shown,
               filtered_out |-> IF shown THEN SelectSeq(sups, Violates) ELSE << >>] >>]

\* Inputs of the decision function: up to MaxQuotes quotes of distinct
\* vendors in any order, an optional cheapest supplier among them, and
\* optional constraints.
QuoteLists(q) ==
  UNION { { [i \in 1 .. n |-> simulate_vendor_api(VendorTable[f[i]], q)] :
              f \in { g \in [1 .. n -> 1 .. Len(VendorTable)] :
                        \A a, b \in 1 .. n : a # b => g[a] # g[b] } } :
          n \in 0 .. MaxQuotes }

Budgets == { << >>, << 120000 >>, << DEFAULT_BUDGET >> }
Deadlines == { << >>, << 5 >> }

\* No acquisition runs while the decision function is exercised.
AcqIdle ==
  /\ csv = [exists |-> FALSE, rows |-> << >>]
  /\ orch = "idle"
  /\ csv_vendors = << >>
  /\ pc = << >>
  /\ attempt = << >>
  /\ last_exception = << >>
  /\ latency = << >>
  /\ results = << >>
  /\ suppliers = << >>
  /\ metadata = << >>
  /\ calls = << >>
  /\ failed = << >>
  /\ allSlow = << >>
  /\ waits = << >>
  /\ completed = << >>

InitDecide ==
  /\ AcqIdle
  /\ qty \in Quantities
  /\ d_suppliers \in QuoteLists(qty)
  /\ d_cheapest \in { << >> } \cup { << x >> : x \in Range(d_suppliers) }
  /\ d_budget \in Budgets
  /\ d_deadline \in Deadlines
  /\ d_result = << >>
  /\ run_result = << >>
  /\ ExtIdle

\* One call of choose_best_supplier.
Decide ==
  /\ d_result = << >>
  /\ d_result' = << choose_best_supplier(d_suppliers, d_cheapest, d_budget, d_deadline) >>
  /\ UNCHANGED << acqVars, d_suppliers, d_cheapest, d_budget, d_deadline,
                  run_result, extVars >>

NextDecide == Decide

SpecDecide == InitDecide /\ [][NextDecide]_vars

\* ----------------------------------------------------------- decision: claims
Decided == d_result # << >>
ConstraintsGiven == d_budget # << >> /\ d_deadline # << >>

\* A quote meets the constraints that are given.
IsEligible(x) ==
  /\ d_budget # << >> => x.price <= d_budget[1]
  /\ d_deadline # << >> => x.delivery <= d_deadline[1]

\* C7: when budget and deadline are given, the winner is an eligible quote
\* (price <= budget and delivery_days <= deadline) and is never a member of
\* filtered_out.
C7_WinnerEligible ==
  (Decided /\ ConstraintsGiven /\ d_result[1].best # << >>) =>
    /\ d_result[1].best[1].price <= d_budget[1]
    /\ d_result[1].best[1].delivery <= d_deadline[1]
    /\ d_result[1].best[1] \notin Range(d_result[1].explanation[1].filtered_out)

\* C8: when no quote is eligible (none was acquired, or every quote violates
\* the constraints) the decision function raises no error and ends with
\* winner = none.
C8_NoEligibleNoWinner ==
  (Decided /\ \A x \in Range(d_suppliers) : ~IsEligible(x)) =>
    /\ ~d_result[1].raised
    /\ d_result[1].best = << >>

Permute(seq, perm) == [i \in 1 .. Len(seq) |-> seq[perm[i]]]

\* x comes before y in the ranking: higher score, then lower price, then
\* lower delivery, then vendor name (names as their position in the table).

\* Alphabetical rank of the vendor names of the table.
NameRank(name) ==
  CASE name = "A" -> 1 [] name = "B" -> 2 [] name = "C" -> 3
    [] name = "D" -> 4 [] name = "E" -> 5 [] OTHER -> 6

RanksBefore(x, y) ==
  \/ x.score > y.score
  \/ x.score = y.score /\ x.price < y.price
  \/ x.score = y.score /\ x.price = y.price /\ x.delivery < y.delivery
  \/ x.score = y.score /\ x.price = y.price /\ x.delivery = y.delivery
       /\ NameRank(x.name) < NameRank(y.name)

\* C9: the decision is independent of the order of its input: every
\* permutation of the same quotes yields the same winner, which is the first
\* quote by score, then lower price, then lower delivery, then vendor name.
C9_OrderIndependent ==
  Decided =>
    /\ \A perm \in Permutations(1 .. Len(d_suppliers)) :
         choose_best_supplier(Permute(d_suppliers, perm), d_cheapest,
                              d_budget, d_deadline).best = d_result[1].best
    /\ d_result[1].best # << >> =>
         \A x \in Range(d_suppliers) \ {d_result[1].best[1]} :
           RanksBefore(d_result[1].best[1], x)

\* C10: when budget and deadline are given, every quote is in exactly one of
\* eligible and filtered_out: it is in filtered_out iff price > budget or
\* delivery_days > deadline, and no quote is reported both as chosen or
\* considered and as filtered out.
C10_Partition ==
  (Decided /\ ConstraintsGiven /\ ~d_result[1].raised) =>
    LET ex == d_result[1].explanation[1]
        reported == {ex.chosen} \cup Range(ex.considered)
        filtered == Range(ex.filtered_out)
    IN  /\ filtered = {x \in Range(d_suppliers) :
                         x.price > d_budget[1] \/ x.delivery > d_deadline[1]}
        /\ reported \cup filtered = Range(d_suppliers)
        /\ reported \cap filtered = {}

\* --------------------------------------------------------- the scoring function
\* Arguments of compute_score: prices and delivery times up to, at and beyond
\* the normalisation ceilings, reliabilities from 0 to 1.
ScorePrices == {0, 100000, MAX_PRICE, 900000, 2500000}
ScoreDeliveries == {0, 3, MAX_DELIVERY, 20, 40}
ScoreReliabilities == {0, 50, 95, 100}

\* Only the function under test has inputs; the rest is idle.
OthersIdle(q) ==
  /\ AcqIdle
  /\ qty = q
  /\ DecIdle
  /\ run_result = << >>
  /\ a_result = << >>
  /\ EntryIdle

InitScore ==
  /\ OthersIdle(100)
  /\ OrderIdle
  /\ StoreIdle
  /\ sc_in \in [price : ScorePrices, delivery : ScoreDeliveries,
                 reliability : ScoreReliabilities]
  /\ sc_out = << >>

\* One call of compute_score.
ComputeScore ==
  /\ sc_out = << >>
  /\ sc_out' = << compute_score(sc_in.price, sc_in.delivery, sc_in.reliability) >>
  /\ UNCHANGED << acqVars, decVars, run_result, entryVars, a_result, sc_in, orderVars, storeVars >>

NextScore == ComputeScore

SpecScore == InitScore /\ [][NextScore]_vars

\* C11: with the configured weights (which sum to 1), price >= 0, delivery >= 0
\* and reliability in [0,1], compute_score returns a value in [0,100]; a
\* price or delivery beyond its ceiling contributes 0 for its objective, not
\* a negative amount.
C11_ScoreInRange ==
  sc_out # << >> =>
    /\ W_PRICE + W_DELIVERY + W_RELIABILITY = 100
    /\ 0 <= sc_out[1] /\ sc_out[1] <= 10000
    /\ sc_out[1] >= W_RELIABILITY * sc_in.reliability
    /\ sc_in.price >= MAX_PRICE =>
         sc_out[1] <= 100 * W_DELIVERY + W_RELIABILITY * sc_in.reliability
    /\ sc_in.delivery >= MAX_DELIVERY =>
         sc_out[1] <= 100 * W_PRICE + W_RELIABILITY * sc_in.reliability
    /\ (sc_in.price >= MAX_PRICE /\ sc_in.delivery >= MAX_DELIVERY) =>
         sc_out[1] = W_RELIABILITY * sc_in.reliability

\* C11 witness: a score was computed for a price and a delivery time beyond
\* both ceilings, and it is the reliability share alone.
C11_Witness ==
  /\ sc_out # << >>
  /\ sc_in.price > MAX_PRICE
  /\ sc_in.delivery > MAX_DELIVERY
  /\ sc_in.reliability = 50
  /\ sc_out[1] = 1000

\* ------------------------------------------- the analysis stage of the run
\* The package agents/ that main.py imports ProcurementCrew from is not part
\* of the sources; its analysis stage is modelled from the specification of
\* the Decision Engine (section 4.5, steps 1 to 4).

\* Section 3: adjusted_price defaults to price; no discount policy is given.
adjusted_price(x) == x.price

\* Step 1: a quote is eligible when it meets the constraints that are given.
meets_constraints(x, budget, deadline) ==
  /\ budget # << >> => x.price <= budget[1]
  /\ deadline # << >> => x.delivery <= deadline[1]

\* Step 2: x is ranked before y: higher score, then lower adjusted price,
\* then lower delivery, then vendor name.
ranked_before(x, y) ==
  \/ x.score > y.score
  \/ x.score = y.score /\ adjusted_price(x) < adjusted_price(y)
  \/ x.score = y.score /\ adjusted_price(x) = adjusted_price(y)
       /\ x.delivery < y.delivery
  \/ x.score = y.score /\ adjusted_price(x) = adjusted_price(y)
       /\ x.delivery = y.delivery /\ NameRank(x.name) < NameRank(y.name)

\* Insertion of x into a ranked sequence.
RECURSIVE rank_insert(_, _)
rank_insert(x, ranked) ==
  IF ranked = << >> THEN << x >>
  ELSE IF ranked_before(x, Head(ranked)) THEN << x >> \o ranked
  ELSE << Head(ranked) >> \o rank_insert(x, Tail(ranked))

RECURSIVE rank_quotes(_)
rank_quotes(quotes) ==
  IF quotes = << >> THEN << >>
  ELSE rank_insert(Head(quotes), rank_quotes(Tail(quotes)))

\* A dominance that asks for a strict improvement on every objective.
dominates_strictly(y, x) ==
  /\ adjusted_price(y) < adjusted_price(x)
  /\ y.delivery < x.delivery
  /\ y.reliability > x.reliability

\* Step 4: y dominates x: at least as good on the three objectives and
\* strictly better on one.
dominates(y, x) ==
  /\ adjusted_price(y) <= adjusted_price(x)
  /\ y.delivery <= x.delivery
  /\ y.reliability >= x.reliability
  /\ \/ adjusted_price(y) < adjusted_price(x)
     \/ y.delivery < x.delivery
     \/ y.reliability > x.reliability

\* Step 4: the pairwise check of every eligible quote against the others.
pareto_subset(eligible) ==
  LET Undominated(x) ==
        \A k \in 1 .. Len(eligible) : ~dominates(eligible[k], x)
  IN  SelectSeq(eligible, Undominated)

\* Steps 1 to 4: the AnalysisResult of section 3.
analyse(quotes, budget, deadline) ==
  LET Eligible(x) == meets_constraints(x, budget, deadline)
      Filtered(x) == ~meets_constraints(x, budget, deadline)
      eligible == SelectSeq(quotes, Eligible)
      ranked == rank_quotes(eligible)
  IN  [ranked |-> ranked,
       pareto_optimal |-> pareto_subset(eligible),
       filtered_out |-> SelectSeq(quotes, Filtered),
       winner |-> IF ranked = << >> THEN << >> ELSE << Head(ranked) >>]

\* One analysis of the inputs of the decision function.
Analyse ==
  /\ a_result = << >>
  /\ a_result' = << analyse(d_suppliers, d_budget, d_deadline) >>
  /\ UNCHANGED << acqVars, decVars, run_result, entryVars, scoreVars, orderVars, storeVars >>

NextAnalyse == Analyse

SpecAnalyse == InitDecide /\ [][NextAnalyse]_vars

\* C19: the Pareto-optimal set is a subset of the eligible quotes and holds
\* exactly the eligible quotes that no other eligible quote dominates (at
\* least as good on adjusted price, delivery and reliability, strictly better
\* on one); it is non-empty whenever a quote is eligible.
C19_ParetoUndominated ==
  a_result # << >> =>
    LET E == {x \in Range(d_suppliers) : IsEligible(x)}
        P == Range(a_result[1].pareto_optimal)
        Better(y, x) ==
          /\ y.price <= x.price /\ y.delivery <= x.delivery
          /\ y.reliability >= x.reliability
          /\ ~(y.price = x.price /\ y.delivery = x.delivery
                 /\ y.reliability = x.reliability)
    IN  /\ P \subseteq E
        /\ P = {x \in E : ~\E y \in E \ {x} : Better(y, x)}
        /\ E # {} => P # {}

\* C19 witness: three quotes are eligible under a budget and a deadline; C,
\* which D dominates, is left out, and D and A are kept.
C19_Witness ==
  /\ a_result # << >>
  /\ ConstraintsGiven
  /\ Len(d_suppliers) = 3
  /\ \A x \in Range(d_suppliers) : IsEligible(x)
  /\ \E x \in Range(d_suppliers) : x.name = "C"
  /\ {x.name : x \in Range(a_result[1].pareto_optimal)} = {"D", "A"}

\* ------------------------------------------------------------- the whole run
\* main.py run_procurement_async lines 32-35 when run_backend is called with a
\* quantity only (the CLI test mode, line 85) on a fresh constraint store:
\* both constraints are the stored defaults.
run_budget == << DEFAULT_BUDGET >>
run_deadline == << DEFAULT_DEADLINE >>

\* main.py lines 41-48: crew.run on what get_vendors returned; of its result
\* the analysis of the quotes is kept.
crew_run ==
  /\ orch = "returned"
  /\ run_result = << >>
  /\ run_result' = << analyse(suppliers, run_budget, run_deadline) >>
  /\ UNCHANGED << acqVars, decVars, extVars >>

NextRun ==
  \/ get_vendors_start
  \/ \E i \in Tasks : StartAttempt(i)
  \/ \E i \in Tasks : CallReturns(i)
  \/ \E i \in Tasks : CallRaises(i)
  \/ get_vendors_return
  \/ crew_run

SpecRun == Init /\ [][NextRun]_vars

ORDER_ATTEMPTS == 3

\* Values random.random() may return, in hundredths: it lies in [0, 1).
RandomDraws == {0, 50, 99}

\* Suppliers handed to place_order: the quotes of the vendor table and two
\* suppliers of reliability 0 and 1.
OrderSuppliers ==
  { [name |-> VendorTable[i].name, reliability |-> VendorTable[i].reliability] :
      i \in 1 .. Len(VendorTable) }
  \cup { [name |-> "Never", reliability |-> 0], [name |-> "Half", reliability |-> 50],
         [name |-> "Always", reliability |-> 100] }

\* A confirmation test that also accepts a draw equal to the reliability.
order_confirmed_inclusive(draw, supplier) == draw <= supplier.reliability

\* executor.py line 9: random.random() < supplier["reliability"].
order_confirmed(draw, supplier) == draw < supplier.reliability

InitOrder ==
  /\ OthersIdle(100)
  /\ ScoreIdle
  /\ StoreIdle
  /\ o_supplier \in OrderSuppliers
  /\ o_pc = "idle"
  /\ o_attempts = 0
  /\ o_draws = << >>
  /\ o_result = << >>

\* executor.py lines 4-7: place_order is called and suspends in the sleep of
\* its first iteration.
place_order_start ==
  /\ o_pc = "idle"
  /\ o_pc' = "sleeping"
  /\ UNCHANGED << acqVars, decVars, run_result, entryVars, a_result, scoreVars, storeVars,
                  o_supplier, o_attempts, o_draws, o_result >>

\* executor.py lines 9-12: the sleep of an iteration ends and the draw is
\* made; a confirmation returns True, a failure on the last iteration returns
\* False, any other failure suspends in the sleep of the next iteration.
place_order_attempt ==
  /\ o_pc = "sleeping"
  /\ \E draw \in RandomDraws :
       /\ o_draws' = Append(o_draws, draw)
       /\ o_attempts' = o_attempts + 1
       /\ IF order_confirmed(draw, o_supplier)
          THEN o_pc' = "done" /\ o_result' = << TRUE >>
          ELSE IF o_attempts + 1 >= ORDER_ATTEMPTS
          THEN o_pc' = "done" /\ o_result' = << FALSE >>
          ELSE o_pc' = "sleeping" /\ UNCHANGED o_result
  /\ UNCHANGED << acqVars, decVars, run_result, entryVars, a_result, scoreVars, storeVars,
                  o_supplier >>

NextOrder == place_order_start \/ place_order_attempt

SpecOrder == InitOrder /\ [][NextOrder]_vars

\* The draws against which the supplier was confirmed.
ConfirmingDraws == {k \in 1 .. Len(o_draws) : o_draws[k] < o_supplier.reliability}

\* C13: place_order makes at most 3 confirmation attempts, returns success at
\* the first attempt that succeeds and makes no further attempt, and reports
\* failure iff all 3 attempts failed; reliability 1 is confirmed at the first
\* attempt and reliability 0 fails after exactly 3 attempts.
C13_BoundedConfirmation ==
  /\ [](/\ o_attempts <= 3 /\ Len(o_draws) = o_attempts
        /\ (o_pc = "done") = (o_result # << >>)
        /\ \A k \in ConfirmingDraws : k = Len(o_draws) /\ o_result = << TRUE >>
        /\ o_result = << TRUE >> => ConfirmingDraws = {Len(o_draws)}
        /\ o_result = << FALSE >> <=> (o_attempts = 3 /\ ConfirmingDraws = {})
        /\ (o_supplier.reliability = 100 /\ o_attempts > 0) =>
             (o_attempts = 1 /\ o_result = << TRUE >>)
        /\ (o_supplier.reliability = 0 /\ o_pc = "done") =>
             (o_attempts = 3 /\ o_result = << FALSE >>))
  /\ [][o_pc = "done" => UNCHANGED << o_attempts, o_draws, o_result >>]_vars

\* C13 witness: a supplier was confirmed at its third attempt after two
\* failed ones.
C13_Witness ==
  /\ o_result = << TRUE >>
  /\ o_attempts = 3
  /\ ConfirmingDraws = {3}

\* --------------------------------------------------------- the constraint store
\* db.py.  The table is a sequence of rows in order of their ids.  An sqlite3
\* call may fail (file not writable, database locked, disk error): fault
\* names the call of the operation that raises, "none" when none does.
GetFaults == {"none", "init_connect", "init_create", "init_count", "init_insert",
              "init_commit", "connect", "execute"}
UpdateFaults == GetFaults \cup {"commit"}

\* Arguments of update_constraints; a budget of None violates NOT NULL.
UpdateBudgets == { << >>, << 120000 >>, << 300000 >> }
UpdateDeadlines == {4, 9}

DefaultRow == [budget |-> DEFAULT_BUDGET, deadline |-> DEFAULT_DEADLINE]

\* db.py init_db.  CREATE TABLE takes effect at once; the INSERT of the
\* default row, made when the table is empty, takes effect at the commit.
init_db(d, fault) ==
  IF fault \in {"init_connect", "init_create"}
  THEN [db |-> d, failed |-> TRUE]
  ELSE IF fault = "init_count" \/ fault = "init_commit"
          \/ (fault = "init_insert" /\ d.rows = << >>)
  THEN [db |-> [d EXCEPT !.created = TRUE], failed |-> TRUE]
  ELSE [db |-> [created |-> TRUE,
                rows |-> IF d.rows = << >> THEN << DefaultRow >> ELSE d.rows],
        failed |-> FALSE]

\* A read of the row of the lowest id.
get_constraints_try_oldest(d, fault) ==
  LET i == init_db(d, fault)
  IN  IF i.failed \/ fault \in {"connect", "execute"}
      THEN [db |-> i.db, failed |-> TRUE, value |-> << >>]
      ELSE [db |-> i.db, failed |-> FALSE,
            value |-> << i.db.rows[1].budget, i.db.rows[1].deadline >>]

\* db.py get_constraints lines 39-47, the body of the try block: the row of
\* the highest id.
get_constraints_try(d, fault) ==
  LET i == init_db(d, fault)
  IN  IF i.failed \/ fault \in {"connect", "execute"}
      THEN [db |-> i.db, failed |-> TRUE, value |-> << >>]
      ELSE [db |-> i.db, failed |-> FALSE,
            value |-> << i.db.rows[Len(i.db.rows)].budget,
                         i.db.rows[Len(i.db.rows)].deadline >>]

\* A get_constraints without the except clause.
get_constraints_unguarded(d, fault) ==
  LET t == get_constraints_try(d, fault)
  IN  [db |-> t.db, failed |-> t.failed, value |-> t.value, raised |-> t.failed]

\* db.py get_constraints: the except clause of lines 49-50 and the return
\* of the defaults at line 52.
get_constraints(d, fault) ==
  LET t == get_constraints_try(d, fault)
  IN  [db |-> t.db, failed |-> t.failed,
       value |-> IF t.failed THEN << DEFAULT_BUDGET, DEFAULT_DEADLINE >> ELSE t.value,
       raised |-> FALSE]

\* db.py update_constraints: the INSERT takes effect at the commit; any
\* exception makes the function return False (lines 73-75).
update_constraints(d, budget, deadline, fault) ==
  LET i == init_db(d, fault)
  IN  IF i.failed \/ fault \in {"connect", "execute", "commit"} \/ budget = << >>
      THEN [db |-> i.db, failed |-> TRUE, ok |-> FALSE, raised |-> FALSE]
      ELSE [db |-> [i.db EXCEPT !.rows =
                      Append(@, [budget |-> budget[1], deadline |-> deadline])],
            failed |-> FALSE, ok |-> TRUE, raised |-> FALSE]

InitStore ==
  /\ OthersIdle(100)
  /\ ScoreIdle
  /\ OrderIdle
  /\ db = [created |-> FALSE, rows |-> << >>]
  /\ k_ops = 0
  /\ k_last = << >>
  /\ k_written = << >>

\* One call of get_constraints.
GetConstraints ==
  /\ k_ops < MaxStoreOps
  /\ \E fault \in GetFaults :
       LET r == get_constraints(db, fault)
       IN  /\ db' = r.db
           /\ k_last' = << [op |-> "get", failed |-> r.failed, raised |-> r.raised,
                            value |-> r.value, ok |-> TRUE] >>
  /\ k_ops' = k_ops + 1
  /\ UNCHANGED k_written
  /\ UNCHANGED << acqVars, decVars, run_result, entryVars, a_result, scoreVars, orderVars >>

\* One call of update_constraints.
UpdateConstraints ==
  /\ k_ops < MaxStoreOps
  /\ \E budget \in UpdateBudgets, deadline \in UpdateDeadlines, fault \in UpdateFaults :
       LET r == update_constraints(db, budget, deadline, fault)
       IN  /\ db' = r.db
           /\ k_last' = << [op |-> "update", failed |-> r.failed, raised |-> r.raised,
                            value |-> << >>, ok |-> r.ok] >>
           /\ k_written' = IF r.ok THEN << << budget[1], deadline >> >> ELSE k_written
  /\ k_ops' = k_ops + 1
  /\ UNCHANGED << acqVars, decVars, run_result, entryVars, a_result, scoreVars, orderVars >>

NextStore == GetConstraints \/ UpdateConstraints

SpecStore == InitStore /\ [][NextStore]_vars

\* C14: get_constraints never propagates an error and returns the defaults
\* (budget 500000, deadline 6) on any failure while initialising or reading
\* the store; update_constraints reports a failure as False, not by raising.
C14_StoreErrorsContained ==
  k_last # << >> =>
    /\ ~k_last[1].raised
    /\ (k_last[1].op = "get" /\ k_last[1].failed) => k_last[1].value = << 500000, 6 >>
    /\ k_last[1].op = "get" => Len(k_last[1].value) = 2
    /\ k_last[1].op = "update" => (k_last[1].ok = ~k_last[1].failed)

\* C14 witness: a get failed on a store whose latest row is not the default
\* and returned the defaults.
C14_Witness ==
  /\ k_last # << >>
  /\ k_last[1].op = "get" /\ k_last[1].failed
  /\ k_last[1].value = << 500000, 6 >>
  /\ db.rows # << >>
  /\ db.rows[Len(db.rows)].budget = 120000

\* ------------------------------------------------------ the backoff schedule
\* min(base_delay * exponential_base^i, max_delay) for the configured values
\* 0.5 s, 2 and 5 s, in milliseconds.
ScheduleBase(i) == IF 500 * (2 ^ i) < 5000 THEN 500 * (2 ^ i) ELSE 5000

\* C15: after failed attempt i < max_attempts - 1 the retrying caller waits d
\* with base <= d <= 1.1 * base, base = min(base_delay * exponential_base^i,
\* max_delay), before attempt i+1 starts; no wait follows the last failed
\* attempt or a success, so f failed attempts make min(f, max_attempts - 1)
\* waits.
C15_BackoffSchedule ==
  /\ [](\A i \in Tasks :
          /\ Len(waits[i]) = Min(failed[i], max_attempts - 1)
          /\ \A k \in 1 .. Len(waits[i]) :
               /\ ScheduleBase(k - 1) <= waits[i][k]
               /\ 10 * waits[i][k] <= 11 * ScheduleBase(k - 1)
          /\ pc[i] = "backoff" <=>
               (~Done(i) /\ calls[i] = failed[i] /\ calls[i] > 0)
          /\ pc[i] = "backoff" => Len(waits[i]) = attempt[i] + 1)
  /\ [][\A i \in Tasks :
          /\ calls'[i] > calls[i] =>
               (pc[i] \in {"new", "backoff"} /\ Len(waits[i]) = calls[i])
          /\ Done(i)' => waits'[i] = waits[i]]_vars

\* C15 witness: a task failed three times and waited twice, both times with
\* the largest jitter.
C15_Witness ==
  \E i \in Tasks :
    /\ Exhausted(i)
    /\ failed[i] = 3
    /\ waits[i] = << 550, 1100 >>

\* C16: for a call that always fails, the waits between the attempts are
\* non-decreasing, whatever the jitter, and stay within max_delay and its
\* jitter.
C16_WaitsNonDecreasing ==
  \A i \in Tasks :
    /\ \A k \in 1 .. Len(waits[i]) - 1 : waits[i][k] <= waits[i][k + 1]
    /\ \A k \in 1 .. Len(waits[i]) : 10 * waits[i][k] <= 11 * 5000

\* C16 witness: a call failed on every attempt, the first wait had the
\* largest jitter and the second one none.
C16_Witness ==
  \E i \in Tasks :
    /\ Exhausted(i)
    /\ calls[i] = failed[i]
    /\ waits[i] = << 550, 1000 >>

\* ------------------------------------------------------------ the vendor table
\* The data of the rows of the file that convert without error.
WellFormedRows ==
  LET Good(r) == ~r.malformed
      good == SelectSeq(csv.rows, Good)
  IN  [k \in 1 .. Len(good) |-> good[k].data]

\* C17: a malformed row of the vendor table is skipped alone: every
\* well-formed row, before or after it, is loaded into the registry and gets
\* its own task and FetchOutcome.
C17_MalformedRowSkipped ==
  (csv.exists /\ orch # "idle") =>
    /\ csv_vendors = WellFormedRows
    /\ (orch = "returned" /\ WellFormedRows # << >>) =>
         \A k \in 1 .. Len(WellFormedRows) :
           \E j \in 1 .. Len(metadata) : metadata[j].vendor = WellFormedRows[k].name

\* ------------------------------------------------- decision: further claims
\* The decision function is given a quote of these attributes.
HasQuote(name, price, delivery, reliability) ==
  \E x \in Range(d_suppliers) :
    /\ x.name = name /\ x.price = price
    /\ x.delivery = delivery /\ x.reliability = reliability

\* C18: for A (price 100000, delivery 3, reliability 0.95), B (90000, 7,
\* 0.80) and C (150000, 2, 0.99) with budget 120000 and deadline 5, B and C
\* are reported as filtered out and A is the winner.
C18_ScenarioWinnerA ==
  (/\ Decided
   /\ Len(d_suppliers) = 3
   /\ HasQuote("A", 100000, 3, 95)
   /\ HasQuote("B", 90000, 7, 80)
   /\ HasQuote("C", 150000, 2, 99)
   /\ d_budget = << 120000 >>
   /\ d_deadline = << 5 >>) =>
    /\ ~d_result[1].raised
    /\ d_result[1].best # << >>
    /\ d_result[1].best[1].name = "A"
    /\ d_result[1].explanation[1].filter_shown
    /\ {x.name : x \in Range(d_result[1].explanation[1].filtered_out)} = {"B", "C"}

\* C18 witness: the scenario was decided with the quotes arriving as C, B, A.
C18_Witness ==
  /\ Decided
  /\ Len(d_suppliers) = 3
  /\ HasQuote("A", 100000, 3, 95)
  /\ HasQuote("B", 90000, 7, 80)
  /\ HasQuote("C", 150000, 2, 99)
  /\ d_suppliers[1].name = "C" /\ d_suppliers[3].name = "A"
  /\ d_budget = << 120000 >>
  /\ d_deadline = << 5 >>
  /\ d_result[1].best[1].score = 8655

\* C20: whenever a quote is eligible, the winner has the maximum score among
\* the eligible quotes: no eligible quote has a higher score than the winner.
C20_WinnerHasMaxScore ==
  (Decided /\ \E x \in Range(d_suppliers) : IsEligible(x)) =>
    /\ ~d_result[1].raised
    /\ d_result[1].best # << >>
    /\ d_result[1].best[1] \in Range(d_suppliers)
    /\ \A x \in Range(d_suppliers) :
         IsEligible(x) => x.score <= d_result[1].best[1].score

\* C20 witness: under a budget and a deadline two eligible quotes of
\* different scores were given, the better one last, and it won.
C20_Witness ==
  /\ Decided
  /\ ConstraintsGiven
  /\ Len(d_suppliers) = 2
  /\ IsEligible(d_suppliers[1]) /\ IsEligible(d_suppliers[2])
  /\ d_suppliers[1].score < d_suppliers[2].score
  /\ d_result[1].best = << d_suppliers[2] >>

\* A quote violates a constraint that is given.
ViolatesSupplied(x) ==
  \/ d_budget # << >> /\ x.price > d_budget[1]
  \/ d_deadline # << >> /\ x.delivery > d_deadline[1]

\* C21: the filtering is skipped (nothing is reported as filtered out) only
\* when no budget and no deadline is given; when a constraint is given, also
\* when it is the only one, every quote that violates it is reported as
\* filtered out.
C21_FilterPerSuppliedConstraint ==
  (Decided /\ ~d_result[1].raised) =>
    LET ex == d_result[1].explanation[1]
    IN  /\ ~ex.filter_shown => (d_budget = << >> /\ d_deadline = << >>)
        /\ \A x \in Range(d_suppliers) :
             ViolatesSupplied(x) => x \in Range(ex.filtered_out)

\* ------------------------------------------------------------ the entry point
\* Constraints a caller passes to run_procurement_async: None, zero, a value.
ArgBudgets == { << >>, << 0 >>, << 120000 >> }
ArgDeadlines == { << >>, << 0 >>, << 4 >> }

\* The constraint store at the call: never opened, or holding a later row.
EntryStores ==
  { [created |-> FALSE, rows |-> << >>],
    [created |-> TRUE, rows |-> << DefaultRow, [budget |-> 300000, deadline |-> 9] >>] }

\* The vendor table of the run: absent, or its first row.
EntryCsvFiles ==
  { [exists |-> FALSE, rows |-> << >>],
    [exists |-> TRUE, rows |-> << [data |-> VendorTable[1], malformed |-> FALSE] >>] }

\* Python's `a or b` for an optional number a and a number b: a when a is
\* truthy (neither None nor 0), otherwise b.
py_or(a, b) == IF a # << >> /\ a[1] # 0 THEN a ELSE << b >>

InitEntry ==
  /\ InitAcq
  /\ csv \in EntryCsvFiles
  /\ DecIdle
  /\ run_result = << >>
  /\ a_result = << >>
  /\ ScoreIdle
  /\ OrderIdle
  /\ db \in EntryStores
  /\ k_ops = 0
  /\ k_last = << >>
  /\ k_written = << >>
  /\ m_pc = "called"
  /\ m_arg_budget \in ArgBudgets
  /\ m_arg_deadline \in ArgDeadlines
  /\ m_budget = m_arg_budget
  /\ m_deadline = m_arg_deadline
  /\ m_stored = << >>

\* main.py lines 32-35: when an argument is None the stored constraints are
\* read and each local becomes `local or stored`.
resolve_constraints ==
  /\ m_pc = "called"
  /\ m_pc' = "fetching"
  /\ IF m_budget = << >> \/ m_deadline = << >>
     THEN \E fault \in GetFaults :
            LET r == get_constraints(db, fault)
            IN  /\ db' = r.db
                /\ m_stored' = << r.value >>
                /\ m_budget' = py_or(m_budget, r.value[1])
                /\ m_deadline' = py_or(m_deadline, r.value[2])
     ELSE UNCHANGED << db, m_stored, m_budget, m_deadline >>
  /\ UNCHANGED << acqVars, decVars, run_result, a_result, scoreVars, orderVars,
                  k_ops, k_last, k_written, m_arg_budget, m_arg_deadline >>

\* main.py line 38: get_vendors is awaited once the constraints are resolved.
await_get_vendors ==
  /\ m_pc = "fetching"
  /\ \/ get_vendors_start
     \/ \E i \in Tasks : StartAttempt(i)
     \/ \E i \in Tasks : CallReturns(i)
     \/ \E i \in Tasks : CallRaises(i)
     \/ get_vendors_return

\* main.py lines 41-50: crew.run is given the quotes and the local budget and
\* deadline, and its result is returned; of the result the analysis is kept.
run_crew ==
  /\ m_pc = "fetching"
  /\ orch = "returned"
  /\ run_result' = << analyse(suppliers, m_budget, m_deadline) >>
  /\ m_pc' = "returned"
  /\ UNCHANGED << acqVars, decVars, a_result, scoreVars, orderVars, storeVars,
                  m_arg_budget, m_arg_deadline, m_budget, m_deadline, m_stored >>

NextEntry == resolve_constraints \/ await_get_vendors \/ run_crew

SpecEntry == InitEntry /\ [][NextEntry]_vars

\* Lines 32-35 of main.py are behind the run.
Resolved == m_pc \in {"fetching", "returned"}

\* C22: the run uses exactly the budget and the deadline the caller supplied,
\* whatever their values (0 included), takes the stored value only for a
\* constraint the caller did not supply, and leaves both unchanged from then
\* to the end of the run.
C22_SuppliedConstraintsUsed ==
  /\ [](Resolved =>
          /\ m_arg_budget # << >> => m_budget = m_arg_budget
          /\ m_arg_deadline # << >> => m_deadline = m_arg_deadline
          /\ m_arg_budget = << >> =>
               m_stored # << >> /\ m_budget = << m_stored[1][1] >>
          /\ m_arg_deadline = << >> =>
               m_stored # << >> /\ m_deadline = << m_stored[1][2] >>)
  /\ [][Resolved => (m_budget' = m_budget /\ m_deadline' = m_deadline)]_vars

\* ---------------------------------------------------------------- termination
\* The event loop runs every task that is ready: a run that was called
\* starts, a task whose creation or backoff sleep is over invokes its call,
\* and gather resumes get_vendors once it is ready.  Every call attempt
\* eventually returns or raises.
Fairness ==
  /\ WF_vars(get_vendors_start)
  /\ WF_vars(get_vendors_return)
  /\ \A i \in 1 .. MaxVendors :
       /\ WF_vars(i \in Tasks /\ StartAttempt(i))
       /\ WF_vars(i \in Tasks /\ (CallReturns(i) \/ CallRaises(i)))

SpecLive == Init /\ [][Next]_vars /\ Fairness

\* The number of invocations of the vendor call made so far in the run.
RECURSIVE SumSeq(_)
SumSeq(seq) == IF seq = << >> THEN 0 ELSE Head(seq) + SumSeq(Tail(seq))

\* C23: when every call attempt eventually returns or raises, every vendor
\* task ends after at most max_attempts attempts and get_vendors eventually
\* returns, under every interleaving of the tasks; the run never makes more
\* than (number of vendors) * max_attempts vendor calls.
C23_Termination ==
  /\ [](/\ \A i \in Tasks : calls[i] <= max_attempts /\ attempt[i] < max_attempts
        /\ SumSeq(calls) <= Len(csv_vendors) * max_attempts)
  /\ <>[](/\ orch = "returned"
          /\ \A i \in Tasks : pc[i] = "done" /\ results[i].meta.attempts <= max_attempts)

\* C23 witness: get_vendors returned after both of two tasks used up all of
\* their attempts, the second task finishing first.
C23_Witness ==
  /\ orch = "returned"
  /\ Len(csv_vendors) = 2
  /\ calls = << max_attempts, max_attempts >>
  /\ completed = << 2, 1 >>

\* ------------------------------------------------------------ the result batch
\* The positions of the outcomes that report a success.
SucceededOutcomes == {j \in 1 .. Len(metadata) : metadata[j].success}

\* C24: what get_vendors returns for a non-empty registry is consistent:
\* every outcome has between 1 and max_attempts attempts; a successful
\* outcome has no error and a quote of its vendor is among the quotes; a
\* failed outcome has max_attempts attempts, an error and no quote of its
\* vendor; so there are as many quotes as successful outcomes.
C24_BatchConsistent ==
  (orch = "returned" /\ csv_vendors # << >>) =>
    /\ Len(metadata) = Len(csv_vendors)
    /\ \A j \in 1 .. Len(metadata) :
         /\ metadata[j].attempts >= 1
         /\ metadata[j].attempts <= max_attempts
         /\ metadata[j].success =>
              /\ metadata[j].error = << >>
              /\ \E k \in 1 .. Len(suppliers) : suppliers[k].name = metadata[j].vendor
         /\ ~metadata[j].success =>
              /\ metadata[j].attempts = max_attempts
              /\ metadata[j].error # << >>
              /\ \A k \in 1 .. Len(suppliers) : suppliers[k].name # metadata[j].vendor
    /\ Len(suppliers) = Cardinality(SucceededOutcomes)

\* C24 witness: get_vendors returned a batch of two outcomes, the first a
\* failure and the second a success at its second attempt, and one quote.
C24_Witness ==
  /\ orch = "returned"
  /\ Len(metadata) = 2
  /\ ~metadata[1].success
  /\ metadata[2].success /\ metadata[2].attempts = 2
  /\ Len(suppliers) = 1
  /\ suppliers[1].name = metadata[2].vendor

\* ------------------------------------------------- the constraint store: reads
\* C25: a get_constraints that reads the store returns the budget and the
\* deadline of the most recent update_constraints that returned True, and the
\* defaults when no update returned True on a store that was fresh; a
\* get_constraints does not change what a later get_constraints returns.
C25_ReadYourWrites ==
  /\ []((k_last # << >> /\ k_last[1].op = "get" /\ ~k_last[1].failed) =>
          k_last[1].value = IF k_written = << >>
                            THEN << DEFAULT_BUDGET, DEFAULT_DEADLINE >>
                            ELSE k_written[1])
  /\ [][GetConstraints =>
          get_constraints(db', "none").value = get_constraints(db, "none").value]_vars

\* C25 witness: after two updates that returned True, the second with
\* (120000, 4), a get read the store and returned (120000, 4).
C25_Witness ==
  /\ k_last # << >>
  /\ k_last[1].op = "get" /\ ~k_last[1].failed
  /\ k_last[1].value = << 120000, 4 >>
  /\ Len(db.rows) = 3
  /\ db.rows[2].budget = 300000
  /\ k_written = << << 120000, 4 >> >>

====
